---- MODULE Spec2Model ----
(***************************************************************************)
(* Model of streamoly.py: a Streamlit script that is re-run from the top   *)
(* on every widget interaction.  One run ("cycle") reads the widgets,      *)
(* and, when the "Update Visualization" button was pressed, queries the    *)
(* remote service with requests.get, turns the CSV answer into a pydeck    *)
(* deck and hands it to st.pydeck_chart.                                   *)
(*                                                                         *)
(* Text is modelled as a sequence of lines, a line as a sequence of        *)
(* fields (a blank line is <<>>), a field as a string.  A float is NaN,     *)
(* Num(n) for the double of value n, or [bits |-> b] for a computed        *)
(* double: IEEE doubles are modelled bit by bit as fixed-point bit strings *)
(* rounded to 53 significant bits (round half to even).                    *)
(***************************************************************************)
EXTENDS Integers, Sequences, FiniteSets, TLC

VARIABLES
    selected_stadiums,  \* value of the multiselect: a list of venue names
    travel_time,        \* value of the slider
    travel_mode,        \* value of the selectbox
    pc,                 \* "idle": run finished; "fetching": blocked in requests.get
    request,            \* the query parameters of the request in flight
    status,             \* HTTP status received in the current run
    data,               \* what fetch_data returned to main in the current run
    raised,             \* exception raised inside main in the current run
    uncaught,           \* TRUE when that exception escaped main
    page,               \* elements the current run has emitted (st.title, st.write, ...)
    n_triggers,         \* presses of the button so far
    n_requests          \* calls of requests.get so far

vars == <<selected_stadiums, travel_time, travel_mode, pc, request, status, data,
          raised, uncaught, page, n_triggers, n_requests>>

-----------------------------------------------------------------------------
(* Bounds of the exploration *)

MaxCnt == 5        \* largest cnt a response row carries
MaxTriggers == 2   \* button presses explored

(* Constants of the program *)

SnippetLen == 1000     \* content[:1000]
ColorMax == 255        \* int(color_intensity * 255)
ElevationScale == 20   \* elevation_scale=20
Radius == 200          \* get_radius=200
Zoom == 11             \* zoom=11
Pitch == 20            \* pitch=20
Resolution == 11       \* resolution=11
Mantissa == 53         \* significant bits of a float64 (astype(float))

NaN == [nan |-> TRUE]
Num(n) == [num |-> n]
NoRequest == [kind |-> "none"]
NoData == [kind |-> "none"]
NoStatus == [kind |-> "none"]
NoRaw == [kind |-> "none"]

-----------------------------------------------------------------------------
(* IEEE double arithmetic on values in [0, 512): a value is a string of    *)
(* IntBits integer bits followed by 64 fraction bits, most significant     *)
(* first.  Every operation computes the exact result and rounds it to      *)
(* Mantissa significant bits, ties to even.                                *)

IntBits == 9           \* integer bits kept: enough for ColorMax and 256 * x, x <= 1
NBits == IntBits + 64

Bits(f) == SubSeq(f, 1, NBits)

RECURSIVE Pow2(_)
Pow2(n) == IF n = 0 THEN 1 ELSE 2 * Pow2(n - 1)

FromNat(n) ==
    Bits([i \in 1..NBits |-> IF i <= IntBits THEN (n \div Pow2(IntBits - i)) % 2 ELSE 0])

RECURSIVE TruncTo(_, _)
TruncTo(x, i) == IF i = 0 THEN 0 ELSE 2 * TruncTo(x, i - 1) + x[i]

\* int(x): the integer part
Trunc(x) == TruncTo(x, IntBits)

RECURSIVE PowMod(_, _)
PowMod(j, m) ==
    IF j = 0 THEN 1 % m
    ELSE LET h == PowMod(j \div 2, m)
         IN  (h * h * (IF j % 2 = 1 THEN 2 ELSE 1)) % m

\* remainder of c / m after j fraction bits of long division
DivRem(c, m, j) == ((c % m) * PowMod(j, m)) % m

\* c / m truncated to the fraction bits kept
DivBits(c, m) ==
    LET whole == FromNat(c \div m)
    IN  Bits([i \in 1..NBits |-> IF i <= IntBits THEN whole[i]
                                 ELSE (2 * DivRem(c, m, i - IntBits - 1)) \div m])

\* round to nearest double, ties to even; sticky0: nonzero bits lie beyond x
Round53(x, sticky0) ==
    IF \A i \in 1..NBits : x[i] = 0 THEN x
    ELSE LET k == CHOOSE i \in 1..NBits : x[i] = 1 /\ \A j \in 1..(i - 1) : x[j] = 0
             last == k + Mantissa - 1
         IN  IF last >= NBits THEN x
             ELSE LET sticky == sticky0 \/ \E j \in (last + 2)..NBits : x[j] = 1
                      up == x[last + 1] = 1 /\ (sticky \/ x[last] = 1)
                  IN  IF ~up THEN Bits([i \in 1..NBits |-> IF i <= last THEN x[i] ELSE 0])
                      ELSE LET p == CHOOSE i \in 1..last :
                                      x[i] = 0 /\ \A j \in (i + 1)..last : x[j] = 1
                           IN  Bits([i \in 1..NBits |->
                                  IF i < p THEN x[i] ELSE IF i = p THEN 1 ELSE 0])

\* sign of a[lo..hi] - b[lo..hi]
RECURSIVE Cmp(_, _, _, _)
Cmp(a, b, lo, hi) ==
    IF lo > hi THEN 0
    ELSE IF lo = hi THEN a[lo] - b[lo]
    ELSE LET mid == (lo + hi) \div 2
             l == Cmp(a, b, lo, mid)
         IN  IF l # 0 THEN l ELSE Cmp(a, b, mid + 1, hi)

\* exact a - b for a >= b
Sub(a, b) ==
    Bits([i \in 1..NBits |->
            (a[i] - b[i] - (IF Cmp(a, b, i + 1, NBits) < 0 THEN 1 ELSE 0) + 2) % 2])

Shl8(w) == Bits([i \in 1..NBits |-> IF i + 8 <= NBits THEN w[i + 8] ELSE 0])

\* x / y for doubles of natural value, x <= y: numpy gives nan for 0.0 / 0.0
fdiv(x, y) ==
    IF x = NaN \/ y = NaN \/ y.num = 0 THEN NaN
    ELSE [bits |-> Round53(DivBits(x.num, y.num),
                           DivRem(x.num, y.num, NBits - IntBits) # 0)]

\* 1 - q for 0 <= q <= 1
fsub1(q) == IF q = NaN THEN NaN ELSE [bits |-> Round53(Sub(FromNat(1), q.bits), FALSE)]

\* v * 255 = 256 v - v for 0 <= v <= 1
fmul255(v) == IF v = NaN THEN NaN ELSE [bits |-> Round53(Sub(Shl8(v.bits), v.bits), FALSE)]

\* int(v) of a double that is not NaN
int(v) == Trunc(v.bits)

-----------------------------------------------------------------------------
(* The venue table (CSV_PATH) and the widgets *)

\* load_stadium_data(): the rows of the venue table; coordinates in 1/100 degree
load_stadium_data ==
    << [Nom_Site |-> "Stade A", Code_Site |-> "STA", latitude |-> 4880, longitude |-> 230],
       [Nom_Site |-> "Stade B", Code_Site |-> "STB", latitude |-> 4893, longitude |-> 236] >>

stadium_data == load_stadium_data

\* stadium_data["Nom_Site"].tolist()
stadium_names == [i \in 1..Len(stadium_data) |-> stadium_data[i].Nom_Site]

Names == {stadium_names[i] : i \in 1..Len(stadium_names)}

\* dict(zip(Nom_Site, Code_Site))[name]: the last row of that name wins
name_to_code(name) ==
    LET last == CHOOSE i \in 1..Len(stadium_data) :
                    /\ stadium_data[i].Nom_Site = name
                    /\ \A j \in (i + 1)..Len(stadium_data) : stadium_data[j].Nom_Site # name
    IN  stadium_data[last].Code_Site

\* what st.sidebar.multiselect can return: lists of distinct options
Selections ==
    {<<>>} \cup {<<a>> : a \in Names}
           \cup {s \in Names \X Names : s[1] # s[2]}

\* default=[stadium_names[0]] if stadium_names else []
DefaultSelection == IF Len(stadium_names) > 0 THEN <<stadium_names[1]>> ELSE <<>>

\* st.sidebar.slider("Travel Time (minutes)", 1, 60, 5): lowest, default, highest
TravelTimes == {1, 5, 60}
DefaultTravelTime == 5

\* st.sidebar.selectbox("Travel Mode", ["auto", "pedestrian", "bike"])
TravelModes == <<"auto", "pedestrian", "bike">>

\* [name_to_code[name] for name in selected_stadiums]
selected_stadium_codes(selected) ==
    [i \in 1..Len(selected) |-> name_to_code(selected[i])]

\* the comprehension raises KeyError on a name that is not in the table
LookupFails(selected) == \E i \in 1..Len(selected) : selected[i] \notin Names

-----------------------------------------------------------------------------
(* The remote service's answers *)

Header == <<"cell_id", "cnt">>
BOM == "B"    \* stands for the one character U+FEFF, which strip() keeps
Cells == {"8a1", "8a2"}
DataLines == {<<c, ToString(n)>> : c \in Cells, n \in 0..MaxCnt}

\* well-formed CSV answers of zero, one or two rows, ending in a newline
CsvBodies ==
    {<<Header, <<>> >>}
      \cup {<<Header, r, <<>> >> : r \in DataLines}
      \cup {<<Header, r1, r2, <<>> >> : r1 \in DataLines, r2 \in DataLines}

OddBodies ==
    { <<>>,                                                   \* ""
      << <<>>, <<>> >>,                                       \* "\n  \n"
      << <<BOM>> >>,                                          \* a byte order mark alone
      << Header, <<"8a1", "1">>, <<"8a2", "2", "3">> >>,      \* a line with a field too many
      << <<"cell_id", "count">>, <<"8a1", "1">> >>,           \* no cnt column
      << <<"h3", "cnt">>, <<"8a1", "1">> >>,                  \* no cell_id column
      << Header, <<"8a1", "many">> >>,                        \* cnt is not a number
      << Header, <<"8a1", "2">>, <<"8a2">> >>,                \* a line with a field missing
      << <<"cell_id", "cnt", "stadium_name">>,
         <<"8a1", "4", "Stade A">>, <<"8a1", "5", "Stade B">> >> }  \* one row per venue

Bodies == CsvBodies \cup OddBodies

\* final statuses requests.get can hand back
Statuses == {200, 304, 404, 500}

\* what requests.get can do: raise a transport error or return a response
Responses ==
    {[kind |-> "transport"]}
      \cup {[kind |-> "http", status_code |-> c, text |-> b] : c \in Statuses, b \in Bodies}

-----------------------------------------------------------------------------
(* Text and pandas *)

RECURSIVE LStrip(_)
LStrip(text) ==
    IF text = <<>> THEN <<>>
    ELSE IF Head(text) = <<>> THEN LStrip(Tail(text)) ELSE text

RECURSIVE RStrip(_)
RStrip(text) ==
    IF text = <<>> THEN <<>>
    ELSE IF text[Len(text)] = <<>> THEN RStrip(SubSeq(text, 1, Len(text) - 1)) ELSE text

\* str.strip(): leading and trailing white space goes
Strip(text) == RStrip(LStrip(text))

RECURSIVE LineLen(_)
LineLen(line) ==
    IF line = <<>> THEN 0
    ELSE Len(Head(line)) + (IF Len(line) > 1 THEN 1 ELSE 0) + LineLen(Tail(line))

\* number of characters of a text: fields, commas and newlines
RECURSIVE CharLen(_)
CharLen(text) ==
    IF text = <<>> THEN 0
    ELSE LineLen(Head(text)) + (IF Len(text) > 1 THEN 1 ELSE 0) + CharLen(Tail(text))

\* content[:1000]: the prefix of at most SnippetLen characters
Snippet(content) ==
    [kind |-> "raw", of |-> content,
     chars |-> IF CharLen(content) <= SnippetLen THEN CharLen(content) ELSE SnippetLen]

NonBlank(line) == line # <<>>

\* pd.read_csv(StringIO(content)): the header line names the columns; blank
\* lines are skipped; a short line is padded with missing values ("nan"); a
\* line longer than the header is a ParserError; a text without a header is
\* an EmptyDataError.  The frame keeps every value as its text.  (Answers
\* whose every line has one field more than the header, which pandas reads
\* as an index column, are not among the answers explored.)
read_csv(content) ==
    LET lines == SelectSeq(content, NonBlank)
    IN  IF lines = <<>> \/ lines[1] = <<BOM>>
        THEN [exc |-> "EmptyDataError"]
        ELSE LET columns == lines[1]
                 body == Tail(lines)
             IN  IF \E i \in 1..Len(body) : Len(body[i]) > Len(columns)
                 THEN [exc |-> "ParserError"]
                 ELSE [exc |-> "none",
                       frame |->
                         [kind |-> "frame",
                          columns |-> columns,
                          rows |-> [i \in 1..Len(body) |->
                                      [j \in 1..Len(columns) |->
                                          IF j <= Len(body[i]) THEN body[i][j] ELSE "nan"]]]]

\* response.raise_for_status(): HTTPError for a 4xx or 5xx status
raise_for_status(status_code) == 400 <= status_code /\ status_code < 600

\* fetch_data once requests.get has returned or raised.  shown: what it
\* passed to st.error itself
fetch_data(response) ==
    IF response.kind = "transport"
    THEN [exc |-> "ConnectionError", msg |-> "connection failed", shown |-> <<>>]
    ELSE IF raise_for_status(response.status_code)
    THEN [exc |-> "HTTPError", msg |-> "error status for url", shown |-> <<>>]
    ELSE LET content == Strip(response.text)
         IN  IF content = <<>>
             THEN [exc |-> "ValueError", msg |-> "Empty response received from the API",
                   shown |-> <<>>]
             ELSE LET parsed == read_csv(content)
                  IN  IF parsed.exc = "EmptyDataError"
                      THEN [exc |-> "ValueError",
                            msg |-> "Empty or invalid CSV data received from the API",
                            shown |-> << [kind |-> "error",
                                          text |-> "Empty or invalid CSV data received. Raw content:",
                                          raw |-> Snippet(content)] >>]
                      ELSE IF parsed.exc # "none"
                      THEN [exc |-> parsed.exc, msg |-> "Error tokenizing data",
                            shown |-> <<>>]
                      ELSE [exc |-> "none", frame |-> parsed.frame, shown |-> <<>>]

-----------------------------------------------------------------------------
(* main: from the answer to the map *)

HasColumn(frame, name) == \E j \in 1..Len(frame.columns) : frame.columns[j] = name

\* frame[name]: the values of the first column of that name
Column(frame, name) ==
    LET j == CHOOSE k \in 1..Len(frame.columns) :
                 frame.columns[k] = name /\ \A l \in 1..(k - 1) : frame.columns[l] # name
    IN  [i \in 1..Len(frame.rows) |-> frame.rows[i][j]]

\* astype(float) raises ValueError on a text that is no number; the numbers
\* of the answers explored are the numerals of 0..MaxCnt
IsNumber(v) == v = "nan" \/ \E n \in 0..MaxCnt : ToString(n) = v

\* astype(float) of one value
AsFloat(v) == IF v = "nan" THEN NaN ELSE Num(CHOOSE n \in 0..MaxCnt : ToString(n) = v)

\* data["cnt"].max(): NaN values are skipped; NaN when nothing is left
max_cnt(cnt) ==
    LET S == {cnt[i].num : i \in {j \in 1..Len(cnt) : cnt[j] # NaN}}
    IN  IF S = {} THEN NaN ELSE Num(CHOOSE y \in S : \A z \in S : z <= y)

\* get_elevation_and_color with round(...) in the place of int(...)
get_elevation_and_color_rounding(cnt, max) ==
    LET scaled == fmul255(fsub1(fdiv(cnt, max)))
    IN  IF scaled = NaN
        THEN [exc |-> "ValueError", msg |-> "cannot convert float NaN to integer"]
        ELSE [exc |-> "none", elevation |-> cnt,
              color |-> <<ColorMax, int(scaled) + scaled.bits[IntBits + 1], 0>>]

\* get_elevation_and_color(row), row["cnt"] = cnt
get_elevation_and_color(cnt, max) ==
    LET elevation == cnt
        color_intensity == fsub1(fdiv(cnt, max))
        scaled == fmul255(color_intensity)
    IN  IF scaled = NaN
        THEN [exc |-> "ValueError", msg |-> "cannot convert float NaN to integer"]
        ELSE [exc |-> "none", elevation |-> elevation,
              color |-> <<ColorMax, int(scaled), 0>>]

\* get_elevation_and_color on every pair of counts of the answers explored
ColorTable ==
    SubSeq([m \in 1..(MaxCnt + 1) |->
              SubSeq([c \in 1..m |-> get_elevation_and_color(Num(c - 1), Num(m - 1))], 1, m)],
           1, MaxCnt + 1)

\* one call of data.apply(get_elevation_and_color, axis=1)
ApplyRow(cnt, max) ==
    IF cnt # NaN /\ max # NaN
    THEN ColorTable[max.num + 1][cnt.num + 1]
    ELSE get_elevation_and_color(cnt, max)

\* Series.mean() of the selected venues' coordinates: NaN for none,
\* else the exact quotient sum / count
Mean(values) ==
    LET RECURSIVE Sum(_)
        Sum(v) == IF v = <<>> THEN 0 ELSE Head(v) + Sum(Tail(v))
    IN  IF values = <<>> THEN NaN ELSE [sum |-> Sum(values), count |-> Len(values)]

\* stadium_data[stadium_data["Nom_Site"].isin(selected_stadiums)]
scatter_data(selected) ==
    LET Picked(row) == \E i \in 1..Len(selected) : selected[i] = row.Nom_Site
    IN  SelectSeq(stadium_data, Picked)

\* pdk.ViewState(latitude=..., longitude=..., zoom=11, pitch=20)
view_state(selected) ==
    LET scatter == scatter_data(selected)
    IN  [latitude |-> Mean([i \in 1..Len(scatter) |-> scatter[i].latitude]),
         longitude |-> Mean([i \in 1..Len(scatter) |-> scatter[i].longitude]),
         zoom |-> Zoom, pitch |-> Pitch]

\* pdk.Layer("ScatterplotLayer", scatter_data, ...)
scatter_layer(selected) ==
    [type |-> "ScatterplotLayer",
     data |-> [i \in 1..Len(scatter_data(selected)) |->
                 <<scatter_data(selected)[i].longitude, scatter_data(selected)[i].latitude>>],
     get_color |-> <<200, 30, 0, 160>>, get_radius |-> Radius, pickable |-> TRUE]

\* pdk.Layer("H3HexagonLayer", data, ...): one hexagon per row of data
layer(rows) ==
    [type |-> "H3HexagonLayer", data |-> rows, pickable |-> TRUE, stroked |-> TRUE,
     filled |-> TRUE, extruded |-> TRUE, elevation_scale |-> ElevationScale]

\* the try block of main after fetch_data has returned frame
Process(frame, selected) ==
    IF ~HasColumn(frame, "cell_id")
    THEN [exc |-> "KeyError", msg |-> "cell_id"]
    ELSE IF ~HasColumn(frame, "cnt")
    THEN [exc |-> "KeyError", msg |-> "cnt"]
    ELSE LET cell_id == Column(frame, "cell_id")
             text == Column(frame, "cnt")
             n == Len(frame.rows)
             cnt == [i \in 1..n |-> AsFloat(text[i])]
         IN  IF \E i \in 1..n : ~IsNumber(text[i])
             THEN [exc |-> "ValueError", msg |-> "could not convert string to float"]
             ELSE IF n = 0
             \* apply gives back the empty frame; zip(*frame) runs over the
             \* column names and does not unpack into two columns
             THEN [exc |-> "ValueError", msg |-> "too many values to unpack"]
             ELSE LET max == max_cnt(cnt)
                      applied == [i \in 1..n |-> ApplyRow(cnt[i], max)]
                  IN  IF \E i \in 1..n : applied[i].exc # "none"
                      THEN LET first == CHOOSE i \in 1..n :
                                          /\ applied[i].exc # "none"
                                          /\ \A j \in 1..(i - 1) : applied[j].exc = "none"
                           IN  applied[first]
                      ELSE [exc |-> "none",
                            chart |->
                              [kind |-> "pydeck_chart",
                               layers |->
                                 << layer([i \in 1..n |->
                                             [cell_id |-> cell_id[i],
                                              cnt |-> cnt[i],
                                              elevation |-> applied[i].elevation,
                                              color |-> applied[i].color]]),
                                    scatter_layer(selected) >>,
                               initial_view_state |-> view_state(selected)]]

\* except ValueError in the place of except Exception
CaughtValueErrorOnly(exc) == exc = "ValueError"

\* except Exception: every exception the try block raises derives from Exception
Caught(exc) ==
    exc \in {"ConnectionError", "HTTPError", "ValueError", "ParserError", "KeyError"}

\* a button that reads as pressed in every run
button_stuck(clicked) == TRUE

\* st.sidebar.button("Update Visualization"): True in the run its press started
button(clicked) == clicked

\* the query parameters fetch_data sends; stadium_codes[i] is key stadium_codes[i-1]
Params(codes, time, mode) ==
    [kind |-> "get", dtype_out_raster |-> "png", dtype_out_vector |-> "csv",
     travel_time |-> time, travel_mode |-> mode, resolution |-> Resolution,
     stadium_codes |-> codes]

Title == [kind |-> "title", text |-> "Paris 2024 : Stadiums, Stays & City Access"]
Subheader == [kind |-> "subheader", text |-> "Selected Stadiums"]
Fetching(codes) ==
    [kind |-> "write", text |-> "Fetching data for stadium codes:", codes |-> codes]
ErrorMessage(exc, msg) ==
    [kind |-> "error", text |-> "An error occurred:", exc |-> exc, msg |-> msg,
     raw |-> NoRaw]
TryAgain ==
    [kind |-> "write",
     text |-> "Please try again with different parameters or contact support if the issue persists."]

-----------------------------------------------------------------------------
(* The runs of the script *)

Init ==
    /\ selected_stadiums = DefaultSelection
    /\ travel_time = DefaultTravelTime
    /\ travel_mode = TravelModes[1]
    /\ pc = "idle"
    /\ request = NoRequest
    /\ status = NoStatus
    /\ data = NoData
    /\ raised = "none"
    /\ uncaught = FALSE
    /\ page = <<Title, Subheader>>
    /\ n_triggers = 0
    /\ n_requests = 0

\* main from its first line to requests.get, or to its end when the button
\* was not pressed, with the widgets at (selected, time, mode)
Run(selected, time, mode, clicked) ==
    /\ selected_stadiums' = selected
    /\ travel_time' = time
    /\ travel_mode' = mode
    /\ status' = NoStatus
    /\ data' = NoData
    /\ IF LookupFails(selected)
       THEN /\ raised' = "KeyError"
            /\ uncaught' = TRUE
            /\ page' = <<Title>>
            /\ pc' = "idle"
            /\ request' = NoRequest
            /\ n_requests' = n_requests
       ELSE LET codes == selected_stadium_codes(selected)
                shown == <<Title>> \o (IF selected # <<>> THEN <<Subheader>> ELSE <<>>)
            IN  /\ raised' = "none"
                /\ uncaught' = FALSE
                /\ IF button(clicked)
                   THEN /\ page' = Append(shown, Fetching(codes))
                        /\ pc' = "fetching"
                        /\ request' = Params(codes, time, mode)
                        /\ n_requests' = n_requests + 1
                   ELSE /\ page' = shown
                        /\ pc' = "idle"
                        /\ request' = NoRequest
                        /\ n_requests' = n_requests

\* the user changes the multiselect
SelectStadiums(selected) ==
    /\ pc = "idle"
    /\ selected # selected_stadiums
    /\ Run(selected, travel_time, travel_mode, FALSE)
    /\ UNCHANGED n_triggers

\* the user moves the slider
SetTravelTime(time) ==
    /\ pc = "idle"
    /\ time # travel_time
    /\ Run(selected_stadiums, time, travel_mode, FALSE)
    /\ UNCHANGED n_triggers

\* the user picks another travel mode
SetTravelMode(mode) ==
    /\ pc = "idle"
    /\ mode # travel_mode
    /\ Run(selected_stadiums, travel_time, mode, FALSE)
    /\ UNCHANGED n_triggers

\* the user presses "Update Visualization"
UpdateVisualization ==
    /\ pc = "idle"
    /\ n_triggers < MaxTriggers
    /\ n_triggers' = n_triggers + 1
    /\ Run(selected_stadiums, travel_time, travel_mode, TRUE)

\* requests.get returns or raises, and main runs to its end
Respond(response) ==
    /\ pc = "fetching"
    /\ LET got == fetch_data(response)
           result == IF got.exc # "none" THEN got
                     ELSE Process(got.frame, selected_stadiums)
       IN  /\ status' = IF response.kind = "http" THEN [code |-> response.status_code] ELSE NoStatus
           /\ data' = IF got.exc = "none" THEN got.frame ELSE NoData
           /\ raised' = result.exc
           /\ uncaught' = (result.exc # "none" /\ ~Caught(result.exc))
           /\ page' = page \o got.shown \o
                        (IF result.exc = "none" THEN <<result.chart>>
                         ELSE IF Caught(result.exc)
                         THEN <<ErrorMessage(result.exc, result.msg), TryAgain>>
                         ELSE <<>>)
    /\ pc' = "idle"
    /\ request' = NoRequest
    /\ UNCHANGED <<selected_stadiums, travel_time, travel_mode, n_triggers, n_requests>>

Next ==
    \/ \E selected \in Selections : SelectStadiums(selected)
    \/ \E time \in TravelTimes : SetTravelTime(time)
    \/ \E i \in 1..Len(TravelModes) : SetTravelMode(TravelModes[i])
    \/ UpdateVisualization
    \/ \E response \in Responses : Respond(response)

Spec == Init /\ [][Next]_vars

-----------------------------------------------------------------------------
(* What the current run has put on the page *)

Elements(kind) == {page[i] : i \in {j \in 1..Len(page) : page[j].kind = kind}}
Charts == Elements("pydeck_chart")
Errors == Elements("error")

\* the rows of a chart's hexagon layer
HexRows(chart) == chart.layers[1].data

\* the largest count among the rows of a chart's hexagon layer
HexMax(chart) ==
    CHOOSE m \in {HexRows(chart)[i].cnt.num : i \in 1..Len(HexRows(chart))} :
        \A i \in 1..Len(HexRows(chart)) : HexRows(chart)[i].cnt.num <= m

\* round(a / b), ties to even, for naturals a and b > 0
RoundHalfEven(a, b) ==
    LET q == a \div b
        r == a % b
    IN  IF 2 * r < b THEN q
        ELSE IF 2 * r > b THEN q + 1
        ELSE IF q % 2 = 0 THEN q ELSE q + 1

-----------------------------------------------------------------------------
(* C1: pressing the button with no venue selected issues no request.  The  *)
(* script has no such check: it calls fetch_data with an empty code list.  *)
C1_NoQueryWithoutVenue ==
    ~(pc = "fetching" /\ selected_stadiums = <<>> /\ request # NoRequest)

C3_NeverEmptyTable ==
    data # NoData => Len(data.rows) >= 1

(* C4: a response whose status is outside 200-299 makes fetch_data fail    *)
(* and its body is never returned as data.  raise_for_status lets a 3xx    *)
(* status through.                                                         *)
C4_Non2xxFails ==
    (status # NoStatus /\ ~(200 <= status.code /\ status.code <= 299)) =>
        (data = NoData /\ raised = "HTTPError")

(* C5: every failure to parse a non-empty body shows an error message that *)
(* carries a copy of the body of at most 1000 characters.  A ParserError   *)
(* is reported without the body.                                           *)
C5_ParseFailureShowsBody ==
    \A e \in Errors :
        (/\ e.text = "An error occurred:"
         /\ \/ e.exc = "ParserError"
            \/ e.msg = "Empty or invalid CSV data received from the API")
        => \E r \in Errors : r.raw # NoRaw /\ r.raw.chars <= SnippetLen

(* C6: a table whose counts are all 0 is rendered: count / max_count is    *)
(* taken as 0.  The division gives NaN and int(NaN) raises.                *)
C6_ZeroMaxRenders ==
    (/\ pc = "idle"
     /\ data # NoData
     /\ data.columns = Header
     /\ Len(data.rows) >= 1
     /\ \A i \in 1..Len(data.rows) : data.rows[i][2] = "0")
    => (raised = "none" /\ Charts # {})

(* C7 as stated: every hexagon's colour is                                 *)
(* [255, round(255 * (1 - count / max_count)), 0] and its elevation is its *)
(* count.  The code truncates.                                             *)
C7_RoundedGreen ==
    \A chart \in Charts : \A i \in 1..Len(HexRows(chart)) :
        LET row == HexRows(chart)[i]
            max == HexMax(chart)
        IN  /\ row.elevation = row.cnt
            /\ row.color = <<ColorMax,
                             RoundHalfEven(ColorMax * (max - row.cnt.num), max), 0>>

(* C7 as amended: every hexagon's elevation is its count and its colour is *)
(* [255, g, 0] with g in 0..255 the double 255 * (1 - count / max_count)   *)
(* truncated: g is the floor of the exact value, or one less where the     *)
(* exact value is a whole number that the doubles fall short of; g is 0 at *)
(* count = max_count and 255 at count = 0.                                 *)
C7_TruncatedGreen ==
    \A chart \in Charts : \A i \in 1..Len(HexRows(chart)) :
        LET row == HexRows(chart)[i]
            max == HexMax(chart)
            exact == ColorMax * (max - row.cnt.num)    \* times 1 / max
            g == row.color[2]
        IN  /\ max > 0
            /\ row.elevation = row.cnt
            /\ row.color = <<ColorMax, g, 0>>
            /\ g \in 0..ColorMax
            /\ \/ g = exact \div max
               \/ exact % max = 0 /\ g = (exact \div max) - 1
            /\ row.cnt.num = max => g = 0
            /\ row.cnt.num = 0 => g = ColorMax

\* a chart with a hexagon of count 4 under a largest count of 5, where the
\* exact value is 51 and the doubles give 50.999...
C7_Witness ==
    \E chart \in Charts : \E i \in 1..Len(HexRows(chart)) :
        /\ HexRows(chart)[i].cnt = Num(4)
        /\ HexMax(chart) = 5
        /\ HexRows(chart)[i].color = <<ColorMax, 50, 0>>

(* C8: no deck is built for an empty selection: no view state centred on   *)
(* the mean of zero venues reaches the renderer.  The code builds it.      *)
C8_NoUndefinedCentre ==
    \A chart \in Charts :
        /\ selected_stadiums # <<>>
        /\ chart.initial_view_state.latitude # NaN
        /\ chart.initial_view_state.longitude # NaN

(* C9: the hexagon layer holds one cell per distinct cell_id of the        *)
(* answer.  The code passes every row on.                                  *)
C9_OneCellPerCellId ==
    \A chart \in Charts :
        \A i, j \in 1..Len(HexRows(chart)) :
            HexRows(chart)[i].cell_id = HexRows(chart)[j].cell_id => i = j

(* C10: a request is issued only by a press of the button, one per press;  *)
(* no step of a run that waits for or got an answer issues another one,    *)
(* and a deck is put on the page only by the step that received the answer *)
(* of the request in flight.                                               *)
C10_RequestOnlyOnTrigger ==
    [][ /\ n_requests' \in {n_requests, n_requests + 1}
        /\ n_requests' = n_requests + 1 <=> n_triggers' = n_triggers + 1
        /\ n_requests' = n_requests + 1 =>
              pc = "idle" /\ pc' = "fetching" /\ request' # NoRequest
        /\ pc = "fetching" => n_requests' = n_requests /\ pc' = "idle"
        /\ pc' = "fetching" => n_requests' = n_requests + 1
        /\ Elements("pydeck_chart")' # {} => pc = "fetching"
      ]_vars

\* a failed request, the run over, and still one request for one press
C10_Witness ==
    /\ pc = "idle"
    /\ raised = "ConnectionError"
    /\ n_triggers = 2
    /\ n_requests = 2

====
